---- MODULE Spec2Model ----
(***************************************************************************)
(* Model of the trustlink backend: the connections service                 *)
(* (request / accept / reject / list over the "relationships" collection   *)
(* and its deterministic relationship ID) behind AuthMiddleware, the feed  *)
(* service's createPost, and the event publication that request, accept    *)
(* and createPost perform after their write.                               *)
(*                                                                         *)
(* Every HTTP call is a small process: its local steps are atomic, and     *)
(* each call to the document store or to the broker is one step, so calls  *)
(* running on different server workers interleave between those steps.     *)
(***************************************************************************)
EXTENDS Integers, Sequences, FiniteSets, TLC

(***************************************************************************)
(* Strings are sequences of byte values, so that sort.Strings and "+" are  *)
(* computed as Go computes them.                                           *)
(***************************************************************************)
EmptyStr == << >>

\* "_"
Separator == <<95>>

\* "a", "b" and "c"
UidA == <<97>>
UidB == <<98>>
UidC == <<99>>

\* bounds
MaxCalls == 2
MaxOps == 2
MaxIdLen == 3
MaxQueue == 2
MaxProfileCalls == 3

\* byte-wise lexicographic "less than", as Go's < on strings
RECURSIVE StrLess(_, _)
StrLess(s, t) ==
    IF t = EmptyStr THEN FALSE
    ELSE IF s = EmptyStr THEN TRUE
    ELSE IF Head(s) < Head(t) THEN TRUE
    ELSE IF Head(s) > Head(t) THEN FALSE
    ELSE StrLess(Tail(s), Tail(t))

SortStrings_NoSwap(uids) == uids

\* sort.Strings on a slice of two strings
SortStrings(uids) ==
    IF StrLess(uids[2], uids[1]) THEN <<uids[2], uids[1]>> ELSE uids

createRelationshipID_Unsorted(uid1, uid2) ==
    uid1 \o Separator \o uid2

createRelationshipID(uid1, uid2) ==
    LET uids == SortStrings(<<uid1, uid2>>)
    IN  uids[1] \o Separator \o uids[2]

(***************************************************************************)
(* Identities (token.UID values) and request bodies                        *)
(***************************************************************************)
Uids == { UidA, UidB }
Uids3 == { UidA, UidB, UidC }
Texts == { <<97>> }

StatusRequested == "requested"
StatusAccepted == "accepted"
StatusRejected == "rejected"

StatusOK == 200
StatusCreated == 201
StatusBadRequest == 400
StatusUnauthorized == 401
StatusNotFound == 404
StatusInternalServerError == 500

Slots == 1..MaxCalls

VARIABLES
    relationships,  \* Firestore collection "relationships": document ID -> fields
    posts,          \* Firestore collection "posts": document ID -> fields
    users,          \* Firestore collection "users": uid -> fields
    clock,          \* the wall clock read by time.Now()
    calls,          \* the HTTP calls in progress, one per server worker
    opCount,        \* number of calls received so far
    postCount,      \* number of post IDs drawn from uuid.New()
    published,      \* messages accepted by the exchange, in order
    response,       \* the HTTP response written by the step just taken, if any
    uid1, uid2,     \* inputs of createRelationshipID (specification SpecID)
    rid,            \* its results for both argument orders
    faults,         \* whether calls of the document store can fail in this run
    reqMethod,      \* gateway: method of the request received
    reqPath,        \* gateway: its URL path
    upstream,       \* gateway: where the request went
    queue,          \* broker: messages ready in the queue "notification-service"
    unacked,        \* broker: messages delivered to the consumer and not settled yet
    consumer        \* notification service: position of the consuming goroutine

vars == <<relationships, posts, users, clock, calls, opCount, postCount,
          published, response, uid1, uid2, rid, faults,
          reqMethod, reqPath, upstream, queue, unacked, consumer>>

gatewayVars == <<reqMethod, reqPath, upstream>>
consumerVars == <<queue, unacked, consumer>>
auxVars == <<gatewayVars, consumerVars>>

storeVars == <<relationships, posts, users>>
idVars == <<uid1, uid2, rid>>

\* the variables of the connections and feed services
serviceVars == <<storeVars, clock, calls, opCount, postCount, published, response,
                 idVars, faults>>

\* the zero value of the Relationship struct
ZeroRelationship ==
    [ID |-> EmptyStr, FromUID |-> EmptyStr, ToUID |-> EmptyStr,
     Status |-> "", CreatedAt |-> 0, UpdatedAt |-> 0]

NoResp == [status |-> 0, body |-> << >>]

\* a nil slice, an empty slice and append on slices of Relationship
NilSlice == [isNil |-> TRUE, elems |-> << >>]
EmptySlice == [isNil |-> FALSE, elems |-> << >>]
SliceAppend(slice, rels) == [isNil |-> slice.isNil /\ rels = << >>, elems |-> slice.elems \o rels]

IdleCall ==
    [op |-> "none", uid |-> EmptyStr, arg |-> EmptyStr, pc |-> "idle",
     id |-> EmptyStr, now |-> 0, rel |-> ZeroRelationship,
     wrote |-> "none", pubOk |-> "none",
     authHeader |-> EmptyStr, query |-> "", status |-> "", list |-> NilSlice]

NoResponse == [call |-> IdleCall, resp |-> NoResp]

\* httpx.WriteJSON / WriteError: the status and the encoded data
WriteJSON(status, data) == [status |-> status, body |-> data]
BadRequest == WriteJSON(StatusBadRequest, << >>)
Unauthorized == WriteJSON(StatusUnauthorized, << >>)
NotFound == WriteJSON(StatusNotFound, << >>)
InternalServerError == WriteJSON(StatusInternalServerError, << >>)
Success(data) == WriteJSON(StatusOK, <<data>>)
Created(data) == WriteJSON(StatusCreated, <<data>>)

\* DocumentRef.Set: create the document or overwrite it whole
DocSet_Merge(coll, id, data) ==
    IF id \in DOMAIN coll THEN coll ELSE (id :> data) @@ coll

DocSet(coll, id, data) == (id :> data) @@ coll

DocUpdate_ResetsCreatedAt(coll, id, status, now) ==
    [coll EXCEPT ![id] = [@ EXCEPT !.status = status, !.updatedAt = now, !.createdAt = now]]

\* DocumentRef.Update of the paths "status" and "updatedAt" of an existing document
DocUpdate(coll, id, status, now) ==
    [coll EXCEPT ![id] = [@ EXCEPT !.status = status, !.updatedAt = now]]

\* DocumentSnapshot.DataTo(&relationship), then relationship.ID = doc.Ref.ID
DataTo(coll, id) ==
    [ID |-> id, FromUID |-> coll[id].fromUid, ToUID |-> coll[id].toUid,
     Status |-> coll[id].status, CreatedAt |-> coll[id].createdAt,
     UpdatedAt |-> coll[id].updatedAt]

\* the Firestore fields of a Relationship (ID is tagged firestore:"-")
ToFirestore(rel) ==
    [fromUid |-> rel.FromUID, toUid |-> rel.ToUID, status |-> rel.Status,
     createdAt |-> rel.CreatedAt, updatedAt |-> rel.UpdatedAt]

\* time.Now(): every reading of the clock is later than the readings before it
NowValues == { clock + 1 }

\* the outcomes of a call of the document store: success, or an error
StoreOutcomes == IF faults THEN BOOLEAN ELSE {TRUE}

\* a new call runs on the first idle worker
FreeSlot(p) ==
    /\ calls[p].pc = "idle"
    /\ \A q \in Slots : q < p => calls[q].pc # "idle"
    /\ opCount < MaxOps

\* the router hands the request to the handler of route op: directly, or
\* from AuthMiddleware with the verified token's UID in the context
Routed(p, op, uid) ==
    \/ FreeSlot(p)
    \/ /\ calls[p].pc = "handler"
       /\ calls[p].op = op
       /\ calls[p].uid = uid

\* the handler writes its response and returns: the worker is idle again
Finish(p, c, resp) ==
    /\ calls' = [calls EXCEPT ![p] = IdleCall]
    /\ response' = [call |-> c, resp |-> resp]

\* the handler moves on to its next call of the store or the broker
Continue(p, c) ==
    /\ calls' = [calls EXCEPT ![p] = c]
    /\ response' = NoResponse

(***************************************************************************)
(* AuthMiddleware                                                          *)
(***************************************************************************)
\* "Bearer "
BearerPrefix == <<66, 101, 97, 114, 101, 114, 32>>

\* strings.HasPrefix and strings.TrimPrefix
HasPrefix(s, prefix) ==
    /\ Len(s) >= Len(prefix)
    /\ SubSeq(s, 1, Len(prefix)) = prefix

TrimPrefix(s, prefix) ==
    IF HasPrefix(s, prefix) THEN SubSeq(s, Len(prefix) + 1, Len(s)) ELSE s

\* the ID tokens Firebase has issued: "A" to identity "a", "B" to "b"
IssuedTokens == (<<65>> :> UidA) @@ (<<66>> :> UidB)

\* authClient.VerifyIDToken: the token's UID, or an error
VerifyIDToken(idToken) ==
    IF idToken \in DOMAIN IssuedTokens
    THEN [err |-> FALSE, UID |-> IssuedTokens[idToken]]
    ELSE [err |-> TRUE, UID |-> EmptyStr]

AuthMiddlewareCheck_NoPrefixCheck(authHeader) ==
    IF authHeader = EmptyStr THEN "Missing Authorization header"
    ELSE IF TrimPrefix(authHeader, BearerPrefix) = EmptyStr THEN "Empty token"
    ELSE IF VerifyIDToken(TrimPrefix(authHeader, BearerPrefix)).err
         THEN "Invalid or expired token"
    ELSE ""

\* the four checks of AuthMiddleware; "" when the request is let through
AuthMiddlewareCheck(authHeader) ==
    IF authHeader = EmptyStr THEN "Missing Authorization header"
    ELSE IF ~HasPrefix(authHeader, BearerPrefix) THEN "Invalid Authorization header format"
    ELSE IF TrimPrefix(authHeader, BearerPrefix) = EmptyStr THEN "Empty token"
    ELSE IF VerifyIDToken(TrimPrefix(authHeader, BearerPrefix)).err
         THEN "Invalid or expired token"
    ELSE ""

\* the middleware in front of every /v1/connections route: 401, or the
\* token's UID put in the context and the route's handler called
AuthMiddleware(p, route, authHeader) ==
    /\ FreeSlot(p)
    /\ LET c == [IdleCall EXCEPT !.op = route, !.authHeader = authHeader]
           idToken == TrimPrefix(authHeader, BearerPrefix)
       IN  IF AuthMiddlewareCheck(authHeader) # ""
           THEN /\ Finish(p, c, Unauthorized)
                /\ opCount' = opCount + 1
           ELSE /\ Continue(p, [c EXCEPT !.pc = "handler", !.uid = VerifyIDToken(idToken).UID])
                /\ opCount' = opCount
    /\ UNCHANGED <<storeVars, clock, postCount, published, idVars, faults, auxVars>>

(***************************************************************************)
(* requestConnection                                                       *)
(***************************************************************************)
requestValidate_NoSelfCheck(uid, bodyOk, target) ==
    IF ~bodyOk THEN "Invalid request body"
    ELSE IF target = EmptyStr THEN "targetUid is required"
    ELSE ""

\* the decode and the two checks on req.TargetUID; "" when the request is valid
requestValidate(uid, bodyOk, target) ==
    IF ~bodyOk THEN "Invalid request body"
    ELSE IF target = EmptyStr THEN "targetUid is required"
    ELSE IF target = uid THEN "Cannot connect with yourself"
    ELSE ""

\* the Relationship literal built by requestConnection
newRelationship(relationshipID, uid, target, now) ==
    [ID |-> relationshipID, FromUID |-> uid, ToUID |-> target,
     Status |-> StatusRequested, CreatedAt |-> now, UpdatedAt |-> now]

\* up to the call of Set: decode, validate, derive the ID, read the clock
requestConnection_Start(p, uid, bodyOk, target) ==
    /\ Routed(p, "request", uid)
    /\ opCount' = opCount + 1
    /\ LET c == [calls[p] EXCEPT !.op = "request", !.uid = uid, !.arg = target]
       IN  IF requestValidate(uid, bodyOk, target) # ""
           THEN /\ Finish(p, c, BadRequest)
                /\ clock' = clock
           ELSE \E now \in NowValues :
                  LET relationshipID == createRelationshipID(uid, target)
                  IN  /\ clock' = now
                      /\ Continue(p, [c EXCEPT !.pc = "set", !.id = relationshipID, !.now = now,
                                      !.rel = newRelationship(relationshipID, uid, target, now)])
    /\ UNCHANGED <<storeVars, postCount, published, idVars, faults, auxVars>>

requestConnection_Set_PublishesOnFailure(p) ==
    LET c == calls[p]
    IN  /\ c.op = "request"
        /\ c.pc = "set"
        /\ \E ok \in StoreOutcomes :
             IF ok
             THEN /\ relationships' = DocSet(relationships, c.id, ToFirestore(c.rel))
                  /\ Continue(p, [c EXCEPT !.pc = "publish", !.wrote = "ok"])
             ELSE /\ relationships' = relationships
                  /\ Continue(p, [c EXCEPT !.pc = "publish", !.wrote = "failed"])
        /\ UNCHANGED <<posts, users, clock, opCount, postCount, published, idVars, faults, auxVars>>

\* client.Collection("relationships").Doc(relationshipID).Set(ctx, relationship)
requestConnection_Set(p) ==
    LET c == calls[p]
    IN  /\ c.op = "request"
        /\ c.pc = "set"
        /\ \E ok \in StoreOutcomes :
             IF ok
             THEN /\ relationships' = DocSet(relationships, c.id, ToFirestore(c.rel))
                  /\ Continue(p, [c EXCEPT !.pc = "publish", !.wrote = "ok"])
             ELSE /\ relationships' = relationships
                  /\ Finish(p, [c EXCEPT !.wrote = "failed"], InternalServerError)
        /\ UNCHANGED <<posts, users, clock, opCount, postCount, published, idVars, faults, auxVars>>

requestConnection_Publish_FailsOnPublishError(p) ==
    LET c == calls[p]
        event == [FromUID |-> c.uid, ToUID |-> c.arg, CreatedAt |-> c.now]
    IN  /\ c.op = "request"
        /\ c.pc = "publish"
        /\ \E ok \in BOOLEAN :
             IF ok
             THEN /\ published' = Append(published,
                        [routingKey |-> "connection.requested", payload |-> event])
                  /\ Finish(p, [c EXCEPT !.pubOk = "ok"], Created(c.rel))
             ELSE /\ published' = published
                  /\ Finish(p, [c EXCEPT !.pubOk = "failed"], InternalServerError)
        /\ UNCHANGED <<storeVars, clock, opCount, postCount, idVars, faults, auxVars>>

\* rabbitConn.Publish(ctx, "connection.requested", event), then httpx.Created
requestConnection_Publish(p) ==
    LET c == calls[p]
        event == [FromUID |-> c.uid, ToUID |-> c.arg, CreatedAt |-> c.now]
    IN  /\ c.op = "request"
        /\ c.pc = "publish"
        /\ \E ok \in BOOLEAN :
             /\ published' = IF ok
                   THEN Append(published, [routingKey |-> "connection.requested", payload |-> event])
                   ELSE published
             /\ Finish(p, [c EXCEPT !.pubOk = IF ok THEN "ok" ELSE "failed"], Created(c.rel))
        /\ UNCHANGED <<storeVars, clock, opCount, postCount, idVars, faults, auxVars>>

(***************************************************************************)
(* acceptConnection and rejectConnection                                   *)
(***************************************************************************)
\* the decode and the check on req.FromUID; "" when the request is valid
actionValidate(bodyOk, fromUid) ==
    IF ~bodyOk THEN "Invalid request body"
    ELSE IF fromUid = EmptyStr THEN "fromUid is required"
    ELSE ""

\* up to the call of Update: decode, validate, derive the ID, read the clock
acceptConnection_Start(p, uid, bodyOk, fromUid) ==
    /\ Routed(p, "accept", uid)
    /\ opCount' = opCount + 1
    /\ LET c == [calls[p] EXCEPT !.op = "accept", !.uid = uid, !.arg = fromUid]
       IN  IF actionValidate(bodyOk, fromUid) # ""
           THEN /\ Finish(p, c, BadRequest)
                /\ clock' = clock
           ELSE \E now \in NowValues :
                  /\ clock' = now
                  /\ Continue(p, [c EXCEPT !.pc = "update", !.now = now,
                                  !.id = createRelationshipID(fromUid, uid)])
    /\ UNCHANGED <<storeVars, postCount, published, idVars, faults, auxVars>>

acceptConnection_Update_OnlyFromRequested(p) ==
    LET c == calls[p]
    IN  /\ c.op = "accept"
        /\ c.pc = "update"
        /\ \E ok \in StoreOutcomes :
             IF /\ ok
                /\ c.id \in DOMAIN relationships
                /\ relationships[c.id].status = StatusRequested
             THEN /\ relationships' = DocUpdate(relationships, c.id, StatusAccepted, c.now)
                  /\ Continue(p, [c EXCEPT !.pc = "publish", !.wrote = "ok"])
             ELSE /\ relationships' = relationships
                  /\ Finish(p, [c EXCEPT !.wrote = "failed"], InternalServerError)
        /\ UNCHANGED <<posts, users, clock, opCount, postCount, published, idVars, faults, auxVars>>

\* docRef.Update(status = accepted, updatedAt = now); it fails on a missing document
acceptConnection_Update(p) ==
    LET c == calls[p]
    IN  /\ c.op = "accept"
        /\ c.pc = "update"
        /\ \E ok \in StoreOutcomes :
             IF ok /\ c.id \in DOMAIN relationships
             THEN /\ relationships' = DocUpdate(relationships, c.id, StatusAccepted, c.now)
                  /\ Continue(p, [c EXCEPT !.pc = "publish", !.wrote = "ok"])
             ELSE /\ relationships' = relationships
                  /\ Finish(p, [c EXCEPT !.wrote = "failed"], InternalServerError)
        /\ UNCHANGED <<posts, users, clock, opCount, postCount, published, idVars, faults, auxVars>>

\* rabbitConn.Publish(ctx, "connection.accepted", event)
acceptConnection_Publish(p) ==
    LET c == calls[p]
        event == [FromUID |-> c.arg, ToUID |-> c.uid, CreatedAt |-> c.now]
    IN  /\ c.op = "accept"
        /\ c.pc = "publish"
        /\ \E ok \in BOOLEAN :
             /\ published' = IF ok
                   THEN Append(published, [routingKey |-> "connection.accepted", payload |-> event])
                   ELSE published
             /\ Continue(p, [c EXCEPT !.pc = "get", !.pubOk = IF ok THEN "ok" ELSE "failed"])
        /\ UNCHANGED <<storeVars, clock, opCount, postCount, idVars, faults, auxVars>>

\* docRef.Get, DataTo, httpx.Success: shared by accept and reject
connection_Get(p, op) ==
    LET c == calls[p]
    IN  /\ c.op = op
        /\ c.pc = "get"
        /\ \E ok \in StoreOutcomes :
             IF ok /\ c.id \in DOMAIN relationships
             THEN Finish(p, [c EXCEPT !.rel = DataTo(relationships, c.id)],
                         Success(DataTo(relationships, c.id)))
             ELSE Finish(p, c, InternalServerError)
        /\ UNCHANGED <<storeVars, clock, opCount, postCount, published, idVars, faults, auxVars>>

acceptConnection_Get(p) == connection_Get(p, "accept")

\* up to the call of Update; time.Now() is evaluated as an argument of Update
rejectConnection_Start(p, uid, bodyOk, fromUid) ==
    /\ Routed(p, "reject", uid)
    /\ opCount' = opCount + 1
    /\ LET c == [calls[p] EXCEPT !.op = "reject", !.uid = uid, !.arg = fromUid]
       IN  IF actionValidate(bodyOk, fromUid) # ""
           THEN /\ Finish(p, c, BadRequest)
                /\ clock' = clock
           ELSE \E now \in NowValues :
                  /\ clock' = now
                  /\ Continue(p, [c EXCEPT !.pc = "update", !.now = now,
                                  !.id = createRelationshipID(fromUid, uid)])
    /\ UNCHANGED <<storeVars, postCount, published, idVars, faults, auxVars>>

rejectConnection_Update_Upsert(p) ==
    LET c == calls[p]
        fresh == [fromUid |-> c.arg, toUid |-> c.uid, status |-> StatusRejected,
                  createdAt |-> c.now, updatedAt |-> c.now]
    IN  /\ c.op = "reject"
        /\ c.pc = "update"
        /\ \E ok \in StoreOutcomes :
             IF ok
             THEN /\ relationships' =
                        IF c.id \in DOMAIN relationships
                        THEN DocUpdate(relationships, c.id, StatusRejected, c.now)
                        ELSE DocSet(relationships, c.id, fresh)
                  /\ Continue(p, [c EXCEPT !.pc = "get", !.wrote = "ok"])
             ELSE /\ relationships' = relationships
                  /\ Finish(p, [c EXCEPT !.wrote = "failed"], InternalServerError)
        /\ UNCHANGED <<posts, users, clock, opCount, postCount, published, idVars, faults, auxVars>>

rejectConnection_Update_Publishes(p) ==
    LET c == calls[p]
        event == [FromUID |-> c.arg, ToUID |-> c.uid, CreatedAt |-> c.now]
    IN  /\ c.op = "reject"
        /\ c.pc = "update"
        /\ \E ok \in StoreOutcomes :
             IF ok /\ c.id \in DOMAIN relationships
             THEN /\ relationships' = DocUpdate(relationships, c.id, StatusRejected, c.now)
                  /\ published' = Append(published,
                        [routingKey |-> "connection.rejected", payload |-> event])
                  /\ Continue(p, [c EXCEPT !.pc = "get", !.wrote = "ok"])
             ELSE /\ relationships' = relationships
                  /\ published' = published
                  /\ Finish(p, [c EXCEPT !.wrote = "failed"], InternalServerError)
        /\ UNCHANGED <<posts, users, clock, opCount, postCount, idVars, faults, auxVars>>

\* docRef.Update(status = rejected, updatedAt = time.Now())
rejectConnection_Update(p) ==
    LET c == calls[p]
    IN  /\ c.op = "reject"
        /\ c.pc = "update"
        /\ \E ok \in StoreOutcomes :
             IF ok /\ c.id \in DOMAIN relationships
             THEN /\ relationships' = DocUpdate(relationships, c.id, StatusRejected, c.now)
                  /\ Continue(p, [c EXCEPT !.pc = "get", !.wrote = "ok"])
             ELSE /\ relationships' = relationships
                  /\ Finish(p, [c EXCEPT !.wrote = "failed"], InternalServerError)
        /\ UNCHANGED <<posts, users, clock, opCount, postCount, published, idVars, faults, auxVars>>

rejectConnection_Get(p) == connection_Get(p, "reject")

(***************************************************************************)
(* getConnections                                                          *)
(***************************************************************************)
getConnectionsStatus_NoDefault(query) == query

\* the status filter: the "status" query parameter, accepted when it is empty
getConnectionsStatus(query) == IF query = "" THEN StatusAccepted ELSE query

\* document IDs in ascending order, the order in which a query without
\* OrderBy yields its documents
RECURSIVE SortIds(_)
SortIds(ids) ==
    IF ids = {} THEN << >>
    ELSE LET lo == CHOOSE k \in ids : \A j \in ids \ {k} : StrLess(k, j)
         IN  <<lo>> \o SortIds(ids \ {lo})

QueryFromUid_AnyStatus(coll, uid, status) ==
    { k \in DOMAIN coll : coll[k].fromUid = uid }

\* Where("fromUid", "==", uid).Where("status", "==", status)
QueryFromUid(coll, uid, status) ==
    { k \in DOMAIN coll : coll[k].fromUid = uid /\ coll[k].status = status }

\* Where("toUid", "==", uid).Where("status", "==", status)
QueryToUid(coll, uid, status) ==
    { k \in DOMAIN coll : coll[k].toUid = uid /\ coll[k].status = status }

\* the loop over an iterator: DataTo and rel.ID = doc.Ref.ID for each document
Documents(coll, ids) ==
    LET order == SortIds(ids)
    IN  [i \in 1..Len(order) |-> DataTo(coll, order[i])]

\* up to the first query: the identity from the context and the status filter
getConnections_Start(p, uid, query) ==
    /\ Routed(p, "list", uid)
    /\ opCount' = opCount + 1
    /\ Continue(p, [calls[p] EXCEPT !.op = "list", !.uid = uid, !.query = query,
                                    !.status = getConnectionsStatus(query),
                                    !.pc = "query1"])
    /\ UNCHANGED <<storeVars, clock, postCount, published, idVars, faults, auxVars>>

\* the query on fromUid and the loop appending its documents
getConnections_Query1(p) ==
    LET c == calls[p]
    IN  /\ c.op = "list"
        /\ c.pc = "query1"
        /\ \E ok \in StoreOutcomes :
             IF ok
             THEN Continue(p, [c EXCEPT !.pc = "query2",
                     !.list = SliceAppend(c.list,
                         Documents(relationships, QueryFromUid(relationships, c.uid, c.status)))])
             ELSE Finish(p, c, InternalServerError)
        /\ UNCHANGED <<storeVars, clock, opCount, postCount, published, idVars, faults, auxVars>>

getConnections_Query2_SkipsToUid(p) ==
    LET c == calls[p]
        out == IF c.list.isNil THEN EmptySlice ELSE c.list
    IN  /\ c.op = "list"
        /\ c.pc = "query2"
        /\ \E ok \in StoreOutcomes :
             IF ok
             THEN Finish(p, [c EXCEPT !.list = out],
                         Success([connections |-> out, count |-> Len(out.elems)]))
             ELSE Finish(p, c, InternalServerError)
        /\ UNCHANGED <<storeVars, clock, opCount, postCount, published, idVars, faults, auxVars>>

\* the query on toUid and its loop, the nil check, then httpx.Success
getConnections_Query2(p) ==
    LET c == calls[p]
        all == SliceAppend(c.list,
                   Documents(relationships, QueryToUid(relationships, c.uid, c.status)))
        out == IF all.isNil THEN EmptySlice ELSE all
    IN  /\ c.op = "list"
        /\ c.pc = "query2"
        /\ \E ok \in StoreOutcomes :
             IF ok
             THEN Finish(p, [c EXCEPT !.list = out],
                         Success([connections |-> out, count |-> Len(out.elems)]))
             ELSE Finish(p, c, InternalServerError)
        /\ UNCHANGED <<storeVars, clock, opCount, postCount, published, idVars, faults, auxVars>>

(***************************************************************************)
(* createPost (feed service)                                               *)
(***************************************************************************)
\* the decode and the check on req.Text; "" when the request is valid
createPostValidate(bodyOk, text) ==
    IF ~bodyOk THEN "Invalid request body"
    ELSE IF text = EmptyStr THEN "Text is required"
    ELSE ""

createPost_Start(p, uid, bodyOk, text) ==
    /\ FreeSlot(p)
    /\ opCount' = opCount + 1
    /\ LET c == [IdleCall EXCEPT !.op = "createPost", !.uid = uid, !.arg = text]
       IN  IF createPostValidate(bodyOk, text) # ""
           THEN Finish(p, c, BadRequest)
           ELSE Continue(p, [c EXCEPT !.pc = "getUser"])
    /\ UNCHANGED <<storeVars, clock, postCount, published, idVars, faults, auxVars>>

\* client.Collection("users").Doc(uid).Get, then time.Now() and uuid.New()
createPost_GetUser(p) ==
    LET c == calls[p]
    IN  /\ c.op = "createPost"
        /\ c.pc = "getUser"
        /\ \E ok \in StoreOutcomes :
             IF ok /\ c.uid \in DOMAIN users
             THEN \E now \in NowValues :
                    /\ clock' = now
                    /\ postCount' = postCount + 1
                    /\ Continue(p, [c EXCEPT !.pc = "set", !.now = now, !.id = <<postCount + 1>>])
             ELSE /\ Finish(p, c, InternalServerError)
                  /\ UNCHANGED <<clock, postCount>>
        /\ UNCHANGED <<storeVars, opCount, published, idVars, faults, auxVars>>

\* the Post literal built by createPost
newPost(c) ==
    [authorUid |-> c.uid, authorDisplayName |-> users[c.uid].displayName,
     authorPhotoUrl |-> users[c.uid].photoUrl, text |-> c.arg, createdAt |-> c.now]

\* client.Collection("posts").Doc(postID).Set(ctx, post)
createPost_Set(p) ==
    LET c == calls[p]
    IN  /\ c.op = "createPost"
        /\ c.pc = "set"
        /\ \E ok \in StoreOutcomes :
             IF ok
             THEN /\ posts' = DocSet(posts, c.id, newPost(c))
                  /\ Continue(p, [c EXCEPT !.pc = "publish", !.wrote = "ok"])
             ELSE /\ posts' = posts
                  /\ Finish(p, [c EXCEPT !.wrote = "failed"], InternalServerError)
        /\ UNCHANGED <<relationships, users, clock, opCount, postCount, published, idVars, faults, auxVars>>

\* rabbitConn.Publish(ctx, "post.created", event), then httpx.Created
createPost_Publish(p) ==
    LET c == calls[p]
        event == [PostID |-> c.id, AuthorUID |-> c.uid, CreatedAt |-> c.now]
    IN  /\ c.op = "createPost"
        /\ c.pc = "publish"
        /\ \E ok \in BOOLEAN :
             /\ published' = IF ok
                   THEN Append(published, [routingKey |-> "post.created", payload |-> event])
                   ELSE published
             /\ Finish(p, [c EXCEPT !.pubOk = IF ok THEN "ok" ELSE "failed"],
                       Created([ID |-> c.id] @@ posts[c.id]))
        /\ UNCHANGED <<storeVars, clock, opCount, postCount, idVars, faults, auxVars>>

(***************************************************************************)
(* The profile service: GET and PATCH /v1/profile/me on the collection     *)
(* "users".  Of the optional fields of User only bio is kept; the others   *)
(* are handled by the same code.                                           *)
(***************************************************************************)
\* a *string of UpdateProfileRequest: << >> is nil, <<v>> points to v
NilString == << >>

\* the decoded bodies of PATCH: displayName and bio, each present or not
ProfileRequests ==
    { [DisplayName |-> d, Bio |-> b] :
        d \in {NilString, <<"X">>}, b \in {NilString, <<"hello">>} }

\* authClient.GetUser(ctx, uid): the account of the identity
userRecord(uid) ==
    [Email |-> IF uid = UidA THEN "a@t" ELSE "b@t",
     DisplayName |-> IF uid = UidA THEN "A" ELSE "B",
     PhotoURL |-> ""]

\* the User literal built by getProfile
newUser(uid, now) ==
    [UID |-> uid, Email |-> userRecord(uid).Email,
     DisplayName |-> userRecord(uid).DisplayName,
     PhotoURL |-> userRecord(uid).PhotoURL, Bio |-> "",
     CreatedAt |-> now, UpdatedAt |-> now]

\* the Firestore fields of a User (UID is tagged firestore:"-")
UserToFirestore(user) ==
    [displayName |-> user.DisplayName, email |-> user.Email, photoUrl |-> user.PhotoURL,
     bio |-> user.Bio, createdAt |-> user.CreatedAt, updatedAt |-> user.UpdatedAt]

\* doc.DataTo(&user), then user.UID = uid
UserDataTo(coll, uid) ==
    [UID |-> uid, Email |-> coll[uid].email, DisplayName |-> coll[uid].displayName,
     PhotoURL |-> coll[uid].photoUrl, Bio |-> coll[uid].bio,
     CreatedAt |-> coll[uid].createdAt, UpdatedAt |-> coll[uid].updatedAt]

\* docRef.Update(ctx, updates): "updatedAt" and every field the request holds
UserUpdate(coll, uid, req, now) ==
    [coll EXCEPT ![uid] =
        [@ EXCEPT !.updatedAt = now,
                  !.displayName = IF req.DisplayName = NilString THEN @ ELSE req.DisplayName[1],
                  !.bio = IF req.Bio = NilString THEN @ ELSE req.Bio[1]]]

\* a new call of the profile service runs on the first idle worker
ProfileSlot(p) ==
    /\ calls[p].pc = "idle"
    /\ \A q \in Slots : q < p => calls[q].pc # "idle"
    /\ opCount < MaxProfileCalls

getProfile_Start_AlwaysCreates(p, uid) ==
    /\ ProfileSlot(p)
    /\ opCount' = opCount + 1
    /\ Continue(p, [IdleCall EXCEPT !.op = "getProfile", !.uid = uid, !.pc = "getUser"])
    /\ UNCHANGED <<storeVars, clock, postCount, published, idVars, faults, auxVars>>

\* docRef.Get: answer with the stored profile, or go on to create one
getProfile_Start(p, uid) ==
    /\ ProfileSlot(p)
    /\ opCount' = opCount + 1
    /\ LET c == [IdleCall EXCEPT !.op = "getProfile", !.uid = uid]
       IN  \E ok \in StoreOutcomes :
             IF ~ok THEN Finish(p, c, InternalServerError)
             ELSE IF uid \in DOMAIN users THEN Finish(p, c, Success(UserDataTo(users, uid)))
             ELSE Continue(p, [c EXCEPT !.pc = "getUser"])
    /\ UNCHANGED <<storeVars, clock, postCount, published, idVars, faults, auxVars>>

\* authClient.GetUser, then time.Now() and the User literal
getProfile_GetUser(p) ==
    LET c == calls[p]
    IN  /\ c.op = "getProfile"
        /\ c.pc = "getUser"
        /\ \E ok \in StoreOutcomes :
             IF ok
             THEN \E now \in NowValues :
                    /\ clock' = now
                    /\ Continue(p, [c EXCEPT !.pc = "set", !.now = now,
                                    !.rel = newUser(c.uid, now)])
             ELSE /\ Finish(p, c, InternalServerError)
                  /\ clock' = clock
        /\ UNCHANGED <<storeVars, opCount, postCount, published, idVars, faults, auxVars>>

\* docRef.Set(ctx, user), then httpx.Success(w, user)
getProfile_Set(p) ==
    LET c == calls[p]
    IN  /\ c.op = "getProfile"
        /\ c.pc = "set"
        /\ \E ok \in StoreOutcomes :
             IF ok
             THEN /\ users' = DocSet(users, c.uid, UserToFirestore(c.rel))
                  /\ Finish(p, [c EXCEPT !.wrote = "ok"], Success(c.rel))
             ELSE /\ users' = users
                  /\ Finish(p, [c EXCEPT !.wrote = "failed"], InternalServerError)
        /\ UNCHANGED <<relationships, posts, clock, opCount, postCount, published, idVars,
                       faults, auxVars>>

\* the decode of the body, then the updates with time.Now()
updateProfile_Start(p, uid, bodyOk, req) ==
    /\ ProfileSlot(p)
    /\ opCount' = opCount + 1
    /\ LET c == [IdleCall EXCEPT !.op = "updateProfile", !.uid = uid, !.arg = req]
       IN  IF ~bodyOk
           THEN /\ Finish(p, c, BadRequest)
                /\ clock' = clock
           ELSE \E now \in NowValues :
                  /\ clock' = now
                  /\ Continue(p, [c EXCEPT !.pc = "update", !.now = now])
    /\ UNCHANGED <<storeVars, postCount, published, idVars, faults, auxVars>>

\* docRef.Update(ctx, updates): an error when the document does not exist
updateProfile_Update(p) ==
    LET c == calls[p]
    IN  /\ c.op = "updateProfile"
        /\ c.pc = "update"
        /\ \E ok \in StoreOutcomes :
             IF ok /\ c.uid \in DOMAIN users
             THEN /\ users' = UserUpdate(users, c.uid, c.arg, c.now)
                  /\ Continue(p, [c EXCEPT !.pc = "get", !.wrote = "ok"])
             ELSE /\ users' = users
                  /\ Finish(p, [c EXCEPT !.wrote = "failed"], InternalServerError)
        /\ UNCHANGED <<relationships, posts, clock, opCount, postCount, published, idVars,
                       faults, auxVars>>

\* docRef.Get and DataTo, then httpx.Success(w, user)
updateProfile_Get(p) ==
    LET c == calls[p]
    IN  /\ c.op = "updateProfile"
        /\ c.pc = "get"
        /\ \E ok \in StoreOutcomes :
             IF ok /\ c.uid \in DOMAIN users
             THEN Finish(p, c, Success(UserDataTo(users, c.uid)))
             ELSE Finish(p, c, InternalServerError)
        /\ UNCHANGED <<storeVars, clock, opCount, postCount, published, idVars, faults, auxVars>>

(***************************************************************************)
(* The gateway: chi routes under "/v1", each handled by a reverse proxy    *)
(* that forwards the request as it is.                                     *)
(***************************************************************************)
\* "/"
Slash == <<47>>

\* "/v1"
V1 == <<47, 118, 49>>

\* the patterns registered inside r.Route("/v1", ...), in order, with the
\* service each proxies to: "/profile/*", "/posts/*", "/posts", "/connections/*"
GatewayRoutes ==
    << [pattern |-> <<47, 112, 114, 111, 102, 105, 108, 101, 47, 42>>, target |-> "profile"],
       [pattern |-> <<47, 112, 111, 115, 116, 115, 47, 42>>, target |-> "feed"],
       [pattern |-> <<47, 112, 111, 115, 116, 115>>, target |-> "feed"],
       [pattern |-> <<47, 99, 111, 110, 110, 101, 99, 116, 105, 111, 110, 115, 47, 42>>, target |-> "connections"] >>

\* chi's match of a path against a pattern without parameters: a pattern
\* ending in "*" matches every path that starts with what precedes the "*",
\* any other pattern matches the equal path only
PatternMatches(pattern, routePath) ==
    IF pattern # EmptyStr /\ SubSeq(pattern, Len(pattern), Len(pattern)) = <<42>>   \* "*"
    THEN HasPrefix(routePath, SubSeq(pattern, 1, Len(pattern) - 1))
    ELSE routePath = pattern

\* the path a router mounted at prefix sees; "none" when the mount does not match
MountPath(prefix, urlPath) ==
    IF urlPath = prefix THEN Slash
    ELSE IF HasPrefix(urlPath, prefix \o Slash) THEN TrimPrefix(urlPath, prefix)
    ELSE "none"

\* what the gateway does with a request: answers the health check itself,
\* forwards to a service, or answers 404 / 405 when no route matches
GatewayTarget(method, urlPath) ==
    LET routePath == MountPath(V1, urlPath)
        hits == { i \in 1..Len(GatewayRoutes) :
                    PatternMatches(GatewayRoutes[i].pattern, routePath) }
    IN  IF urlPath = <<47, 104, 101, 97, 108, 116, 104, 122>>   \* "/healthz"
        THEN IF method = "GET" THEN "healthz" ELSE "methodnotallowed"
        ELSE IF routePath = "none" \/ hits = {} THEN "notfound"
        ELSE GatewayRoutes[CHOOSE i \in hits : \A j \in hits : i <= j].target

\* the gateway answers one request
GatewayServe ==
    /\ upstream = ""
    /\ upstream' = GatewayTarget(reqMethod, reqPath)
    /\ UNCHANGED <<serviceVars, reqMethod, reqPath, consumerVars>>

GatewayAtRest ==
    /\ reqMethod = ""
    /\ reqPath = EmptyStr
    /\ upstream = ""

(***************************************************************************)
(* The notification service: one goroutine consuming the queue             *)
(* "notification-service" with auto-ack off.                               *)
(***************************************************************************)
\* Message bodies.  valid: the body is a JSON object whose "postId" and
\* "fromUid", when present, are strings; postId, fromUid: those two fields;
\* typed: the body also decodes into the event struct of its kind (its
\* "createdAt" is a timestamp, and so on).
EventBodies ==
    { [valid |-> FALSE, postId |-> "", fromUid |-> "", typed |-> FALSE] } \cup
    { [valid |-> TRUE, postId |-> p, fromUid |-> f, typed |-> t] :
        p \in {"", "p1"}, f \in {"", "a"}, t \in BOOLEAN }

\* json.Unmarshal(body, &event) of the two typed handlers; TRUE is an error
handlePostCreated(body) == ~body.typed

handleConnectionEvent(body) == ~body.typed

\* TRUE when handleEvent returns an error
handleEvent(body) ==
    IF ~body.valid THEN TRUE
    ELSE IF body.postId # "" THEN handlePostCreated(body)
    ELSE IF body.fromUid # "" THEN handleConnectionEvent(body)
    ELSE FALSE

\* the goroutine waiting in its select, after it sent the settlement "sent"
\* ("" before the first message)
IdleConsumer(sent) == [pc |-> "select", msg |-> << >>, err |-> FALSE, sent |-> sent]

\* the broker pushes the next ready message to the consumer's channel
BrokerDeliver ==
    /\ queue # << >>
    /\ unacked' = Append(unacked, Head(queue))
    /\ queue' = Tail(queue)
    /\ UNCHANGED <<serviceVars, gatewayVars, consumer>>

\* case msg, ok := <-msgs
ConsumerReceive ==
    /\ consumer.pc = "select"
    /\ unacked # << >>
    /\ consumer' = [pc |-> "handle", msg |-> <<Head(unacked)>>, err |-> FALSE, sent |-> ""]
    /\ UNCHANGED <<serviceVars, gatewayVars, queue, unacked>>

\* err := opts.Handler(msg.Body)
ConsumerHandle ==
    /\ consumer.pc = "handle"
    /\ consumer' = [consumer EXCEPT !.pc = "settle", !.err = handleEvent(consumer.msg[1])]
    /\ UNCHANGED <<serviceVars, gatewayVars, queue, unacked>>

ConsumerSettle_AlwaysAck ==
    /\ consumer.pc = "settle"
    /\ unacked' = Tail(unacked)
    /\ queue' = queue
    /\ consumer' = IdleConsumer("Ack")
    /\ UNCHANGED <<serviceVars, gatewayVars>>

\* msg.Nack(false, true) on an error: the broker puts the message back at
\* the head of the queue; msg.Ack(false) otherwise: the broker drops it
ConsumerSettle ==
    /\ consumer.pc = "settle"
    /\ unacked' = Tail(unacked)
    /\ queue' = IF consumer.err THEN consumer.msg \o queue ELSE queue
    /\ consumer' = IdleConsumer(IF consumer.err THEN "Nack" ELSE "Ack")
    /\ UNCHANGED <<serviceVars, gatewayVars>>

ConsumerAtRest ==
    /\ queue = << >>
    /\ unacked = << >>
    /\ consumer = IdleConsumer("")

\* the variables of the other services before anything happened
InitAux == GatewayAtRest /\ ConsumerAtRest

(***************************************************************************)
(* The services                                                            *)
(***************************************************************************)
\* the collection as earlier runs of the service can have left it: empty, or
\* holding the request that "a" once sent to "b", in any status
InitRelationships ==
    { << >> } \cup
    { createRelationshipID(UidA, UidB) :>
        [fromUid |-> UidA, toUid |-> UidB, status |-> s,
         createdAt |-> 1, updatedAt |-> 1] :
      s \in {StatusRequested, StatusAccepted, StatusRejected} }

Init ==
    /\ relationships \in InitRelationships
    /\ posts = << >>
    /\ users = (UidA :> [displayName |-> "A", photoUrl |-> ""])
    /\ clock = 1
    /\ calls = [p \in Slots |-> IdleCall]
    /\ opCount = 0
    /\ postCount = 0
    /\ published = << >>
    /\ response = NoResponse
    /\ uid1 = EmptyStr
    /\ uid2 = EmptyStr
    /\ rid = << >>
    /\ faults = TRUE
    /\ InitAux

\* a JSON body: malformed, or carrying the one field the handler reads
Bodies(values) == {<<FALSE, EmptyStr>>} \cup {<<TRUE, v>> : v \in values \cup {EmptyStr}}

Next ==
    \E p \in Slots :
        \/ \E uid \in Uids, b \in Bodies(Uids) : requestConnection_Start(p, uid, b[1], b[2])
        \/ requestConnection_Set(p)
        \/ requestConnection_Publish(p)
        \/ \E uid \in Uids, b \in Bodies(Uids) : acceptConnection_Start(p, uid, b[1], b[2])
        \/ acceptConnection_Update(p)
        \/ acceptConnection_Publish(p)
        \/ acceptConnection_Get(p)
        \/ \E uid \in Uids, b \in Bodies(Uids) : rejectConnection_Start(p, uid, b[1], b[2])
        \/ rejectConnection_Update(p)
        \/ rejectConnection_Get(p)
        \/ \E uid \in Uids, b \in Bodies(Texts) : createPost_Start(p, uid, b[1], b[2])
        \/ createPost_GetUser(p)
        \/ createPost_Set(p)
        \/ createPost_Publish(p)

Spec == Init /\ [][Next]_vars

(***************************************************************************)
(* createRelationshipID on its own: the inputs are drawn from all the      *)
(* non-empty strings of at most MaxIdLen bytes over "_", "a", "b".         *)
(***************************************************************************)
Alphabet == {95, 97, 98}

Strings == UNION { [1..n -> Alphabet] : n \in 1..MaxIdLen }

InitID ==
    /\ relationships = << >>
    /\ posts = << >>
    /\ users = << >>
    /\ clock = 1
    /\ calls = [p \in Slots |-> IdleCall]
    /\ opCount = 0
    /\ postCount = 0
    /\ published = << >>
    /\ response = NoResponse
    /\ uid1 \in Strings
    /\ uid2 \in Strings
    /\ rid = << >>
    /\ faults = TRUE
    /\ InitAux

ApplyCreateRelationshipID ==
    /\ rid = << >>
    /\ rid' = <<createRelationshipID(uid1, uid2), createRelationshipID(uid2, uid1)>>
    /\ UNCHANGED <<storeVars, clock, calls, opCount, postCount, published, response,
                   uid1, uid2, faults, auxVars>>

NextID == ApplyCreateRelationshipID

SpecID == InitID /\ [][NextID]_vars

(***************************************************************************)
(* Accept calls of "b" naming "a" racing on the requested record of        *)
(* (a, b), while every call of the document store succeeds.                *)
(***************************************************************************)
\* no call has been received yet
InitIdle ==
    /\ posts = << >>
    /\ clock = 1
    /\ calls = [p \in Slots |-> IdleCall]
    /\ opCount = 0
    /\ postCount = 0
    /\ published = << >>
    /\ response = NoResponse
    /\ uid1 = EmptyStr
    /\ uid2 = EmptyStr
    /\ rid = << >>

\* the document a Request of from to "to" left at time t, now in status s
StoredRelationship(from, to, s, t) ==
    createRelationshipID(from, to) :>
        [fromUid |-> from, toUid |-> to, status |-> s, createdAt |-> t, updatedAt |-> t]

InitAcceptRace ==
    /\ InitIdle
    /\ relationships = StoredRelationship(UidA, UidB, StatusRequested, 1)
    /\ users = << >>
    /\ faults = FALSE
    /\ InitAux

NextAcceptRace ==
    \E p \in Slots :
        \/ acceptConnection_Start(p, UidB, TRUE, UidA)
        \/ acceptConnection_Update(p)
        \/ acceptConnection_Publish(p)
        \/ acceptConnection_Get(p)

SpecAcceptRace == InitAcceptRace /\ [][NextAcceptRace]_vars

(***************************************************************************)
(* The connections service answering one call at a time, for three         *)
(* identities.                                                             *)
(***************************************************************************)
\* the values of the "status" query parameter
StatusParams == {"", StatusRequested, StatusAccepted, StatusRejected}

\* the collection as earlier calls can have left it: empty, or with one
\* record for each pair of the three identities
InitStores3 ==
    { << >>,
      StoredRelationship(UidA, UidB, StatusRequested, 1)
        @@ StoredRelationship(UidC, UidA, StatusAccepted, 1)
        @@ StoredRelationship(UidB, UidC, StatusRejected, 1) }

InitSeq ==
    /\ InitIdle
    /\ relationships \in InitStores3
    /\ users = << >>
    /\ faults = TRUE
    /\ InitAux

\* well-formed bodies naming one of the identities
Targets3 == { <<TRUE, v>> : v \in Uids3 }

NextSeq ==
    \E p \in {1} :
        \/ \E uid \in Uids3, b \in Targets3 : requestConnection_Start(p, uid, b[1], b[2])
        \/ requestConnection_Set(p)
        \/ requestConnection_Publish(p)
        \/ \E uid \in Uids3, b \in Targets3 : acceptConnection_Start(p, uid, b[1], b[2])
        \/ acceptConnection_Update(p)
        \/ acceptConnection_Publish(p)
        \/ acceptConnection_Get(p)
        \/ \E uid \in Uids3, b \in Targets3 : rejectConnection_Start(p, uid, b[1], b[2])
        \/ rejectConnection_Update(p)
        \/ rejectConnection_Get(p)
        \/ \E uid \in Uids3, query \in StatusParams : getConnections_Start(p, uid, query)
        \/ getConnections_Query1(p)
        \/ getConnections_Query2(p)

SpecSeq == InitSeq /\ [][NextSeq]_vars

(***************************************************************************)
(* getConnections running on one worker while request, accept and reject   *)
(* calls of "a" and "b" run on the others.                                 *)
(***************************************************************************)
InitListRace ==
    /\ InitIdle
    /\ relationships \in InitRelationships
    /\ users = << >>
    /\ faults = TRUE
    /\ InitAux

NextListRace ==
    \E p \in Slots :
        \/ \E uid \in Uids, b \in Bodies(Uids) : requestConnection_Start(p, uid, b[1], b[2])
        \/ requestConnection_Set(p)
        \/ requestConnection_Publish(p)
        \/ \E uid \in Uids, b \in Bodies(Uids) : acceptConnection_Start(p, uid, b[1], b[2])
        \/ acceptConnection_Update(p)
        \/ acceptConnection_Publish(p)
        \/ acceptConnection_Get(p)
        \/ \E uid \in Uids, b \in Bodies(Uids) : rejectConnection_Start(p, uid, b[1], b[2])
        \/ rejectConnection_Update(p)
        \/ rejectConnection_Get(p)
        \/ \E uid \in Uids, query \in StatusParams : getConnections_Start(p, uid, query)
        \/ getConnections_Query1(p)
        \/ getConnections_Query2(p)

SpecListRace == InitListRace /\ [][NextListRace]_vars

(***************************************************************************)
(* The connections service behind AuthMiddleware, one call at a time.      *)
(***************************************************************************)
Routes == {"request", "accept", "reject", "list"}

\* Authorization headers: none, a token without "Bearer ", "Bearer " alone,
\* "Bearer x" (x was never issued), "Bearer A" and "Bearer B"
Headers ==
    { EmptyStr, <<65>>, BearerPrefix, BearerPrefix \o <<120>>,
      BearerPrefix \o <<65>>, BearerPrefix \o <<66>> }

InitAuth ==
    /\ InitIdle
    /\ relationships \in InitRelationships
    /\ users = << >>
    /\ faults = TRUE
    /\ InitAux

\* authmw.GetUserID(r.Context()) of the call that reached its handler
GetUserID(p) == calls[p].uid

NextAuth ==
    \E p \in {1} :
        \/ \E route \in Routes, authHeader \in Headers : AuthMiddleware(p, route, authHeader)
        \/ \E b \in Bodies(Uids) :
              calls[p].pc = "handler" /\ requestConnection_Start(p, GetUserID(p), b[1], b[2])
        \/ \E b \in Bodies(Uids) :
              calls[p].pc = "handler" /\ acceptConnection_Start(p, GetUserID(p), b[1], b[2])
        \/ \E b \in Bodies(Uids) :
              calls[p].pc = "handler" /\ rejectConnection_Start(p, GetUserID(p), b[1], b[2])
        \/ \E query \in StatusParams :
              calls[p].pc = "handler" /\ getConnections_Start(p, GetUserID(p), query)
        \/ requestConnection_Set(p)
        \/ requestConnection_Publish(p)
        \/ acceptConnection_Update(p)
        \/ acceptConnection_Publish(p)
        \/ acceptConnection_Get(p)
        \/ rejectConnection_Update(p)
        \/ rejectConnection_Get(p)
        \/ getConnections_Query1(p)
        \/ getConnections_Query2(p)

SpecAuth == InitAuth /\ [][NextAuth]_vars

(***************************************************************************)
(* Properties                                                              *)
(***************************************************************************)
Ids == DOMAIN relationships

\* C1: the relationships collection never holds two records for the same
\* unordered pair of identities, whoever sent the requests.
C1_OneRecordPerPair ==
    \A k1 \in Ids, k2 \in Ids :
        {relationships[k1].fromUid, relationships[k1].toUid}
            = {relationships[k2].fromUid, relationships[k2].toUid}
        => k1 = k2

\* Request(a,b) then Request(b,a) both went through and one record is stored
C1_Witness ==
    /\ Len(published) = 2
    /\ published[1].routingKey = "connection.requested"
    /\ published[1].payload.FromUID = UidA /\ published[1].payload.ToUID = UidB
    /\ published[2].routingKey = "connection.requested"
    /\ published[2].payload.FromUID = UidB /\ published[2].payload.ToUID = UidA
    /\ Cardinality(Ids) = 1

\* C2: for two different identities, createRelationshipID gives the same ID
\* for both orders of its arguments.
C2_IDSymmetric ==
    (rid # << >> /\ uid1 # uid2) => rid[1] = rid[2]

\* the function was applied to two different strings given in descending order
C2_Witness ==
    /\ rid # << >>
    /\ uid1 # uid2
    /\ StrLess(uid2, uid1)

\* C3 (INV-1): every stored record's document ID is the smaller of its
\* fromUid/toUid, then "_", then the larger one.
C3_KeyIsSortedPair ==
    \A k \in Ids :
        LET r == relationships[k]
            lo == IF StrLess(r.toUid, r.fromUid) THEN r.toUid ELSE r.fromUid
            hi == IF StrLess(r.toUid, r.fromUid) THEN r.fromUid ELSE r.toUid
        IN  k = lo \o Separator \o hi

\* a record requested by the larger identity and then accepted
C3_Witness ==
    \E k \in Ids :
        /\ relationships[k].fromUid = UidB
        /\ relationships[k].toUid = UidA
        /\ relationships[k].status = StatusAccepted

\* C4 (INV-2): a Request whose target is empty or is the caller answers 400
\* without writing or publishing, so no stored record has fromUid = toUid.
C4_NoSelfConnection ==
    /\ [](/\ \A k \in Ids : relationships[k].fromUid # relationships[k].toUid
          /\ (/\ response.call.op = "request"
              /\ response.call.arg \in {EmptyStr, response.call.uid})
             => /\ response.resp = BadRequest
                /\ response.call.wrote = "none"
                /\ response.call.pubOk = "none")
    /\ [][(/\ response' # response
           /\ response'.call.op = "request"
           /\ response'.call.arg \in {EmptyStr, response'.call.uid})
          => /\ relationships' = relationships
             /\ published' = published]_vars

\* a Request naming the caller was answered 400 while a record is stored
C4_Witness ==
    /\ response.call.op = "request"
    /\ response.call.arg = response.call.uid
    /\ response.resp.status = StatusBadRequest
    /\ Ids # {}

\* C5 (INV-3): a stored record's fromUid, toUid and createdAt never change.
C5_CreationFieldsImmutable ==
    [][\A k \in Ids :
          /\ k \in DOMAIN relationships'
          /\ relationships'[k].fromUid = relationships[k].fromUid
          /\ relationships'[k].toUid = relationships[k].toUid
          /\ relationships'[k].createdAt = relationships[k].createdAt]_vars

\* C6: a record's status becomes accepted or rejected only by the Update of
\* an Accept or Reject call made by the record's toUid and naming its fromUid.
C6_OnlyRecipientDecides ==
    [][\A k \in Ids :
          (/\ k \in DOMAIN relationships'
           /\ relationships'[k].status # relationships[k].status
           /\ relationships'[k].status \in {StatusAccepted, StatusRejected})
          => \E p \in Slots :
                /\ calls[p].op \in {"accept", "reject"}
                /\ calls[p].pc = "update"
                /\ calls'[p].pc # "update"
                /\ calls[p].id = k
                /\ calls[p].uid = relationships[k].toUid
                /\ calls[p].arg = relationships[k].fromUid]_vars

\* C7: accepted and rejected are terminal; the only status changes are
\* none -> requested, requested -> accepted and requested -> rejected.
C7_TerminalStatuses ==
    [][\A k \in DOMAIN relationships' :
          IF k \in Ids
          THEN \/ relationships'[k].status = relationships[k].status
               \/ /\ relationships[k].status = StatusRequested
                  /\ relationships'[k].status \in {StatusAccepted, StatusRejected}
          ELSE relationships'[k].status = StatusRequested]_vars

\* C8: the Set of a valid Request leaves the pair's record with fromUid = the
\* caller, toUid = the target, status requested and createdAt = updatedAt =
\* the time the call read, whatever record the pair had before; the call
\* then answers 201 with that relationship.
C8_RequestOverwrites ==
    [][\A p \in Slots :
          LET c == calls[p]
              key == createRelationshipID(c.uid, c.arg)
          IN  /\ (c.op = "request" /\ c.pc = "set" /\ calls'[p].pc = "publish")
                 => /\ key \in DOMAIN relationships'
                    /\ relationships'[key] =
                          [fromUid |-> c.uid, toUid |-> c.arg, status |-> StatusRequested,
                           createdAt |-> c.now, updatedAt |-> c.now]
              /\ (c.op = "request" /\ c.pc = "publish" /\ calls'[p].pc = "idle")
                 => response'.resp =
                       Created([ID |-> key, FromUID |-> c.uid, ToUID |-> c.arg,
                                Status |-> StatusRequested,
                                CreatedAt |-> c.now, UpdatedAt |-> c.now])]_vars

\* "b" accepted the request of "a", and afterwards "b" requested "a": the
\* accepted record was overwritten from the other side
C8_Witness ==
    \E k \in Ids, i \in 1..Len(published) :
        /\ published[i].routingKey = "connection.accepted"
        /\ published[i].payload.FromUID = UidA
        /\ published[i].payload.ToUID = UidB
        /\ relationships[k].fromUid = UidB
        /\ relationships[k].toUid = UidA
        /\ relationships[k].status = StatusRequested
        /\ relationships[k].createdAt = relationships[k].updatedAt
        /\ relationships[k].createdAt > published[i].payload.CreatedAt

\* C9: a message reaches the exchange only from a call whose Set/Update
\* succeeded, and a call whose Set/Update failed answers 500 and publishes
\* nothing.
C9_PublishOnlyAfterWrite ==
    /\ [][published' # published
          => \E p \in Slots :
                /\ calls[p].pc = "publish"
                /\ calls[p].wrote = "ok"
                /\ calls'[p].pc # "publish"
                /\ Len(published') = Len(published) + 1
                /\ SubSeq(published', 1, Len(published)) = published
                /\ published'[Len(published')].routingKey =
                      CASE calls[p].op = "request" -> "connection.requested"
                        [] calls[p].op = "accept" -> "connection.accepted"
                        [] calls[p].op = "createPost" -> "post.created"
                        [] OTHER -> "none"]_vars
    /\ [](response.call.wrote = "failed"
          => /\ response.resp = InternalServerError
             /\ response.call.pubOk = "none")

\* the Update of an Accept failed although the record exists, after another
\* call had published
C9_Witness ==
    /\ response.call.op = "accept"
    /\ response.call.wrote = "failed"
    /\ response.call.id \in Ids
    /\ published # << >>

\* C10: the publish step of Request and Accept leaves the store alone and
\* its outcome does not enter the answer: Request answers 201 with the
\* relationship it wrote, Accept goes on to its re-read and answers with
\* what the re-read finds.
C10_PublishOutcomeIgnored ==
    /\ [][\A p \in Slots :
            LET c == calls[p]
            IN  (c.pc = "publish" /\ c.op \in {"request", "accept"} /\ calls'[p] # c)
                => /\ relationships' = relationships
                   /\ c.op = "request"
                      => /\ calls'[p] = IdleCall
                         /\ response'.resp = Created(c.rel)
                   /\ c.op = "accept"
                      => /\ calls'[p].pc = "get"
                         /\ [calls'[p] EXCEPT !.pubOk = "none"] = [c EXCEPT !.pc = "get"]]_vars
    /\ [](/\ (response.call.op = "request" /\ response.call.pubOk # "none")
             => response.resp = Created(response.call.rel)
          /\ (response.call.op = "accept" /\ response.call.pubOk # "none")
             => \/ response.resp = InternalServerError
                \/ /\ response.call.id \in Ids
                   /\ response.resp = Success(DataTo(relationships, response.call.id)))

\* an Accept whose publish failed answers 200 with the accepted record
C10_Witness ==
    /\ response.call.op = "accept"
    /\ response.call.pubOk = "failed"
    /\ response.resp.status = StatusOK
    /\ response.resp.body[1].Status = StatusAccepted
    /\ published = << >>

\* C11: an Accept or Reject whose derived ID has no stored record is answered
\* 404 (not found).
C11_MissingRecordIsNotFound ==
    (/\ response.call.op \in {"accept", "reject"}
     /\ response.call.wrote = "failed"
     /\ response.call.id \notin Ids)
    => response.resp = NotFound

\* C12: a document appears in the collection only by the successful Set of a
\* Request, with status requested; the Update of an Accept or Reject whose
\* derived ID has no document creates nothing, leaves the store and the
\* exchange as they were, and ends the call with an error.
C12_OnlyRequestCreates ==
    /\ [][\A k \in DOMAIN relationships' \ Ids :
            /\ relationships'[k].status = StatusRequested
            /\ \E p \in Slots :
                  /\ calls[p].op = "request"
                  /\ calls[p].pc = "set"
                  /\ calls[p].id = k
                  /\ calls'[p].wrote = "ok"]_vars
    /\ [][\A p \in Slots :
            (/\ calls[p].op \in {"accept", "reject"}
             /\ calls[p].pc = "update"
             /\ calls[p].id \notin Ids
             /\ calls'[p] # calls[p])
            => /\ storeVars' = storeVars
               /\ published' = published
               /\ calls'[p] = IdleCall
               /\ response'.resp.status \notin {StatusOK, StatusCreated}
               /\ response'.call.wrote = "failed"
               /\ response'.call.pubOk = "none"]_vars

\* an Accept and a Reject were both turned down for want of a record, and
\* the collection is still empty
C12_Witness ==
    /\ response.call.op = "reject"
    /\ response.call.wrote = "failed"
    /\ response.call.id \notin Ids
    /\ opCount = 2
    /\ Ids = {}
    /\ published = << >>

\* C13: when Accept calls of "b" naming "a" run concurrently on the requested
\* record and the store does not fail, every one of them answers 200 with
\* the relationship in status accepted, the record is accepted once any
\* Update has run and when all calls have returned, and at every moment the
\* record keeps its fromUid, toUid and createdAt and is requested or accepted.
C13_ConcurrentAccepts ==
    LET k == createRelationshipID(UidA, UidB)
    IN  /\ k \in Ids
        /\ relationships[k].fromUid = UidA
        /\ relationships[k].toUid = UidB
        /\ relationships[k].createdAt = 1
        /\ relationships[k].status \in {StatusRequested, StatusAccepted}
        /\ response.call.op = "accept"
           => /\ response.resp.status = StatusOK
              /\ response.resp.body[1].ID = k
              /\ response.resp.body[1].Status = StatusAccepted
              /\ response.resp.body[1].FromUID = UidA
              /\ response.resp.body[1].ToUID = UidB
              /\ response.resp.body[1].CreatedAt = 1
        /\ (response.call.wrote = "ok" \/ \E p \in Slots : calls[p].wrote = "ok")
           => relationships[k].status = StatusAccepted
        /\ (opCount > 0 /\ \A p \in Slots : calls[p].pc = "idle")
           => relationships[k].status = StatusAccepted

\* two Accept calls overlapped: the one that read the clock first wrote last
\* and returned last
C13_Witness ==
    /\ opCount = 2
    /\ \A p \in Slots : calls[p].pc = "idle"
    /\ response.call.op = "accept"
    /\ response.call.now = 2
    /\ response.resp.status = StatusOK
    /\ relationships[createRelationshipID(UidA, UidB)].updatedAt = 2

\* the relationships of a 200 answer of getConnections
Listed == response.resp.body[1].connections.elems

\* C14: an Accept answered 200 leaves its record accepted, and a
\* ListConnections(x, "accepted") answered 200 contains every accepted record
\* whose fromUid or toUid is x: after Request(a,b) and Accept(b,a) both the
\* list of "a" and the list of "b" hold the record.
C14_AcceptedIsListed ==
    /\ (response.call.op = "accept" /\ response.resp.status = StatusOK)
       => /\ response.call.id \in Ids
          /\ relationships[response.call.id].status = StatusAccepted
          /\ response.resp.body[1].Status = StatusAccepted
    /\ (/\ response.call.op = "list"
        /\ response.call.query = StatusAccepted
        /\ response.resp.status = StatusOK)
       => \A k \in Ids :
             (/\ relationships[k].status = StatusAccepted
              /\ response.call.uid \in {relationships[k].fromUid, relationships[k].toUid})
             => \E i \in 1..Len(Listed) : Listed[i] = DataTo(relationships, k)

\* "b" accepted the request of "a" and then listed its accepted connections:
\* the record of (a, b) is in the answer
C14_Witness ==
    /\ response.call.op = "list"
    /\ response.call.uid = UidB
    /\ response.call.query = StatusAccepted
    /\ response.resp.status = StatusOK
    /\ \E j \in 1..Len(published) :
          /\ published[j].routingKey = "connection.accepted"
          /\ published[j].payload.FromUID = UidA
          /\ published[j].payload.ToUID = UidB
    /\ \E i \in 1..Len(Listed) :
          /\ Listed[i].ID = createRelationshipID(UidA, UidB)
          /\ Listed[i].FromUID = UidA
          /\ Listed[i].Status = StatusAccepted

\* C15: a Reject answered 200 leaves its record rejected, and a
\* ListConnections(x, "accepted") answered 200 holds accepted records only, so
\* after Request(a,b) and Reject(b,a) neither the list of "a" nor the list of
\* "b" holds the record.
C15_RejectedIsNotListed ==
    /\ (response.call.op = "reject" /\ response.resp.status = StatusOK)
       => /\ response.call.id \in Ids
          /\ relationships[response.call.id].status = StatusRejected
          /\ response.resp.body[1].Status = StatusRejected
    /\ (/\ response.call.op = "list"
        /\ response.call.query = StatusAccepted
        /\ response.resp.status = StatusOK)
       => /\ \A i \in 1..Len(Listed) : Listed[i].Status = StatusAccepted
          /\ \A k \in Ids :
                relationships[k].status = StatusRejected
                => \A i \in 1..Len(Listed) : Listed[i].ID # k

\* the request of "a" to "b" was rejected after it was stored, and "a" then
\* listed its accepted connections
C15_Witness ==
    LET k == createRelationshipID(UidA, UidB)
    IN  /\ response.call.op = "list"
        /\ response.call.uid = UidA
        /\ response.call.query = StatusAccepted
        /\ response.resp.status = StatusOK
        /\ k \in Ids
        /\ relationships[k].fromUid = UidA
        /\ relationships[k].status = StatusRejected
        /\ relationships[k].updatedAt > relationships[k].createdAt

\* C16: with no other call running, a getConnections answered 200 returns
\* exactly the stored records whose status is the status parameter (accepted
\* when the parameter is empty) and whose fromUid or toUid is the caller, each
\* once; "count" is their number and "connections" is never null.
C16_ListIsExact ==
    (response.call.op = "list" /\ response.resp.status = StatusOK)
    => LET s == IF response.call.query = "" THEN StatusAccepted ELSE response.call.query
           match == { k \in Ids :
                        /\ relationships[k].status = s
                        /\ response.call.uid \in
                               {relationships[k].fromUid, relationships[k].toUid} }
       IN  /\ ~response.resp.body[1].connections.isNil
           /\ { Listed[i] : i \in 1..Len(Listed) } = { DataTo(relationships, k) : k \in match }
           /\ Len(Listed) = Cardinality(match)
           /\ response.resp.body[1].count = Len(Listed)

\* "a" listed without a status parameter and got two of the three stored
\* records, one from each query
C16_Witness ==
    /\ response.call.op = "list"
    /\ response.call.uid = UidA
    /\ response.call.query = ""
    /\ response.resp.status = StatusOK
    /\ response.resp.body[1].count = 2
    /\ Listed[1].FromUID = UidA
    /\ Listed[2].ToUID = UidA
    /\ Cardinality(Ids) = 3

\* C17: no answer of getConnections holds the same relationship ID twice,
\* whatever calls run between its two queries.
C17_NoDuplicateId ==
    (response.call.op = "list" /\ response.resp.status = StatusOK)
    => \A i \in 1..Len(Listed), j \in 1..Len(Listed) :
          Listed[i].ID = Listed[j].ID => i = j

\* C18: no step of a Reject call changes the exchange, whatever its outcome,
\* and a Reject never reaches a publish; the successful Update of an Accept
\* is followed by exactly one attempt to publish connection.accepted, made
\* before the re-read.
C18_RejectNeverPublishes ==
    /\ [][(\/ response' # response /\ response'.call.op = "reject"
           \/ \E p \in Slots :
                 /\ calls'[p] # calls[p]
                 /\ "reject" \in {calls[p].op, calls'[p].op})
          => published' = published]_vars
    /\ [](/\ response.call.op = "reject" => response.call.pubOk = "none"
          /\ \A p \in Slots :
                calls[p].op = "reject"
                => calls[p].pubOk = "none" /\ calls[p].pc # "publish")
    /\ [][\A p \in Slots :
            LET c == calls[p]
            IN  /\ (c.op = "accept" /\ c.pc = "update" /\ calls'[p].wrote = "ok")
                   => calls'[p].pc = "publish" /\ calls'[p].pubOk = "none"
                /\ (c.op = "accept" /\ c.pc = "publish" /\ calls'[p] # c)
                   => /\ calls'[p].pc = "get"
                      /\ calls'[p].pubOk \in {"ok", "failed"}
                      /\ published' \in
                            { published,
                              Append(published,
                                [routingKey |-> "connection.accepted",
                                 payload |-> [FromUID |-> c.arg, ToUID |-> c.uid,
                                              CreatedAt |-> c.now]]) }
                /\ (c.op = "accept" /\ c.pc = "get")
                   => published' = published \/ calls'[p] = c]_vars
    /\ [](/\ (response.call.op = "accept" /\ response.call.wrote = "ok")
             => response.call.pubOk \in {"ok", "failed"}
          /\ \A p \in Slots :
                (calls[p].op = "accept" /\ calls[p].pc = "get")
                => calls[p].pubOk \in {"ok", "failed"})

\* a Reject was answered 200 after an Accept had published: the exchange
\* holds the one connection.accepted message and nothing else
C18_Witness ==
    /\ response.call.op = "reject"
    /\ response.resp.status = StatusOK
    /\ Len(published) = 1
    /\ published[1].routingKey = "connection.accepted"

\* C19: a /v1/connections request whose Authorization header is missing, does
\* not start with "Bearer ", carries an empty token or a token that does not
\* verify is answered 401 by the middleware in a step that leaves the store,
\* the exchange and the handlers' calls untouched; every call that runs in a
\* handler carries "Bearer " followed by an issued token and acts as that
\* token's identity.
C19_AuthRequired ==
    /\ [](/\ \A p \in Slots :
                calls[p].pc # "idle"
                => \E t \in DOMAIN IssuedTokens :
                      /\ calls[p].authHeader = BearerPrefix \o t
                      /\ calls[p].uid = IssuedTokens[t]
          /\ (/\ response.call.op # "none"
              /\ \A t \in DOMAIN IssuedTokens : response.call.authHeader # BearerPrefix \o t)
             => /\ response.resp = Unauthorized
                /\ response.call.pc = "idle"
                /\ response.call.wrote = "none"
                /\ response.call.pubOk = "none")
    /\ [][(opCount' # opCount /\ response'.resp = Unauthorized)
          => /\ storeVars' = storeVars
             /\ published' = published
             /\ calls' = calls]_vars

\* a request with a token that was never issued was answered 401 while a
\* record is stored
C19_Witness ==
    /\ response.call.op = "accept"
    /\ response.call.authHeader = BearerPrefix \o <<120>>
    /\ response.resp = Unauthorized
    /\ Ids # {}
    /\ opCount = 2

\* C20: the successful Update of an Accept or Reject changes, in the one
\* document at the ID derived from the caller and fromUid, the status and
\* updatedAt only; every other document, and that document's fromUid, toUid
\* and createdAt, stay as they were, and no other step of the call writes.
C20_UpdateTouchesStatusOnly ==
    [][\A p \in Slots :
          LET c == calls[p]
          IN  /\ (c.op \in {"accept", "reject"} /\ c.pc = "update" /\ calls'[p].wrote = "ok")
                 => /\ c.id = createRelationshipID(c.arg, c.uid)
                    /\ c.id \in Ids
                    /\ DOMAIN relationships' = Ids
                    /\ \A k \in Ids \ {c.id} : relationships'[k] = relationships[k]
                    /\ relationships'[c.id] =
                          [relationships[c.id] EXCEPT
                             !.status = IF c.op = "accept" THEN StatusAccepted
                                        ELSE StatusRejected,
                             !.updatedAt = c.now]
                    /\ posts' = posts /\ users' = users
              /\ (c.op \in {"accept", "reject"} /\ c.pc \in {"publish", "get"})
                 => storeVars' = storeVars]_vars

\* a Reject was answered 200 for one of three stored records
C20_Witness ==
    /\ response.call.op = "reject"
    /\ response.resp.status = StatusOK
    /\ Cardinality(Ids) = 3
    /\ relationships[response.call.id].createdAt = 1
    /\ relationships[response.call.id].updatedAt > 1

\* C21: whatever other calls on the pair run meanwhile, an Accept answered
\* 200 carries the relationship in status accepted and a Reject answered 200
\* carries it in status rejected.
C21_AnswerReflectsOwnUpdate ==
    /\ (response.call.op = "accept" /\ response.resp.status = StatusOK)
       => response.resp.body[1].Status = StatusAccepted
    /\ (response.call.op = "reject" /\ response.resp.status = StatusOK)
       => response.resp.body[1].Status = StatusRejected

\* C25: connection.accepted is published on transitions only. In
\* SpecAcceptRace the record changes status at most once, from requested to
\* accepted, so the exchange holds at most one connection.accepted message,
\* and none while the record is still requested.
C25_AcceptedEventsAreTransitions ==
    Cardinality({ i \in 1..Len(published) :
                    /\ published[i].routingKey = "connection.accepted"
                    /\ published[i].payload.FromUID = UidA
                    /\ published[i].payload.ToUID = UidB })
    <= IF relationships[createRelationshipID(UidA, UidB)].status = StatusAccepted
       THEN 1 ELSE 0

\* C28: every stored relationship has updatedAt not earlier than createdAt.
C28_UpdatedNotBeforeCreated ==
    \A k \in Ids : relationships[k].updatedAt >= relationships[k].createdAt

(***************************************************************************)
(* The gateway alone: one request of any method and path.                  *)
(***************************************************************************)
\* the paths tried: "", "/v1" or "/v2", then "", "/profile", "/posts",
\* "/connections" or "/healthz", then "", "/", "/me", "/request", "/accept"
\* or "/reject"
Paths ==
    { a \o b \o c :
        a \in {EmptyStr, V1, <<47, 118, 50>>},
        b \in {EmptyStr, <<47, 112, 114, 111, 102, 105, 108, 101>>, <<47, 112, 111, 115, 116, 115>>, <<47, 99, 111, 110, 110, 101, 99, 116, 105, 111, 110, 115>>, <<47, 104, 101, 97, 108, 116, 104, 122>>},
        c \in {EmptyStr, Slash, <<47, 109, 101>>, <<47, 114, 101, 113, 117, 101, 115, 116>>, <<47, 97, 99, 99, 101, 112, 116>>, <<47, 114, 101, 106, 101, 99, 116>>} }

\* the connections endpoints of the documentation: GET /v1/connections and
\* POST /v1/connections/request, /accept, /reject
ConnectionsEndpoints ==
    { <<"GET", <<47, 118, 49, 47, 99, 111, 110, 110, 101, 99, 116, 105, 111, 110, 115>>>>,
      <<"POST", <<47, 118, 49, 47, 99, 111, 110, 110, 101, 99, 116, 105, 111, 110, 115, 47, 114, 101, 113, 117, 101, 115, 116>>>>, <<"POST", <<47, 118, 49, 47, 99, 111, 110, 110, 101, 99, 116, 105, 111, 110, 115, 47, 97, 99, 99, 101, 112, 116>>>>, <<"POST", <<47, 118, 49, 47, 99, 111, 110, 110, 101, 99, 116, 105, 111, 110, 115, 47, 114, 101, 106, 101, 99, 116>>>> }

ServicesAtRest ==
    /\ InitIdle
    /\ relationships = << >>
    /\ users = << >>
    /\ faults = FALSE

InitGateway ==
    /\ ServicesAtRest
    /\ reqMethod \in {"GET", "POST", "PATCH"}
    /\ reqPath \in Paths
    /\ upstream = ""
    /\ ConsumerAtRest

NextGateway == GatewayServe

SpecGateway == InitGateway /\ [][NextGateway]_vars

\* C22: every documented connections endpoint, the list endpoint
\* GET /v1/connections included, is forwarded to the connections service.
C22_ConnectionsEndpointsForwarded ==
    (upstream # "" /\ <<reqMethod, reqPath>> \in ConnectionsEndpoints)
        => upstream = "connections"

(***************************************************************************)
(* Identities that contain the separator: the pair ("_", "_a") holds a     *)
(* record, and every call comes from a third identity, "__".               *)
(***************************************************************************)
\* "_" and "_a"
Owners == << <<95>>, <<95, 97>> >>

\* "__"
Outsider == <<95, 95>>

InitThird ==
    /\ InitIdle
    /\ relationships \in
          { StoredRelationship(Owners[1], Owners[2], s, 1) :
              s \in {StatusRequested, StatusAccepted, StatusRejected} }
    /\ users = << >>
    /\ faults = TRUE
    /\ InitAux

\* the calls of the outsider, naming "a", "b" or one of the owners
NextThird ==
    \E p \in Slots :
        \/ \E b \in Bodies(Uids \cup {Owners[1], Owners[2]}) :
              requestConnection_Start(p, Outsider, b[1], b[2])
        \/ requestConnection_Set(p)
        \/ requestConnection_Publish(p)
        \/ \E b \in Bodies(Uids \cup {Owners[1], Owners[2]}) :
              acceptConnection_Start(p, Outsider, b[1], b[2])
        \/ acceptConnection_Update(p)
        \/ acceptConnection_Publish(p)
        \/ acceptConnection_Get(p)
        \/ \E b \in Bodies(Uids \cup {Owners[1], Owners[2]}) :
              rejectConnection_Start(p, Outsider, b[1], b[2])
        \/ rejectConnection_Update(p)
        \/ rejectConnection_Get(p)

SpecThird == InitThird /\ [][NextThird]_vars

\* C26: the record of a pair is created or modified only by calls
\* authenticated as one of the two: no call of a third identity, whatever
\* targetUid or fromUid it supplies, changes the record of the pair.
C26_OnlyThePairChangesItsRecord ==
    [][LET k == createRelationshipID(Owners[1], Owners[2])
       IN  relationships'[k] = relationships[k]]_vars

\* C27: createRelationshipID is injective on unordered pairs of non-empty
\* identifiers, the ones containing "_" included: no other pair derives
\* the ID that a pair derives.
C27_IDInjective ==
    rid # << >> =>
        \A x, y \in Strings :
            createRelationshipID(x, y) = rid[1] => {x, y} = {uid1, uid2}

(***************************************************************************)
(* The consumer alone, on a queue holding up to MaxQueue messages; the     *)
(* goroutine and the broker keep running.                                  *)
(***************************************************************************)
InitConsumer ==
    /\ ServicesAtRest
    /\ GatewayAtRest
    /\ queue \in UNION { [1..n -> EventBodies] : n \in 0..MaxQueue }
    /\ unacked = << >>
    /\ consumer = IdleConsumer("")

NextConsumer ==
    \/ BrokerDeliver
    \/ ConsumerReceive
    \/ ConsumerHandle
    \/ ConsumerSettle

SpecConsumer == InitConsumer /\ [][NextConsumer]_vars /\ WF_vars(NextConsumer)

\* C23: the consumer settles each delivery once and only after its handler
\* returned: the message being handled is the oldest unsettled delivery and
\* stays unsettled while it is handled (auto-ack is off); a delivery is
\* settled only from the position after the handler, it is acked (dropped)
\* exactly when the handler returned nil and nacked with requeue exactly
\* when it returned an error; the next message is taken only afterwards.
C23_OneSettlementAfterHandler ==
    /\ [](consumer.pc # "select" => (unacked # << >> /\ consumer.msg = <<Head(unacked)>>))
    /\ [](consumer.pc = "settle" => consumer.err = handleEvent(consumer.msg[1]))
    /\ [][unacked' # unacked /\ Len(unacked') <= Len(unacked) =>
            /\ consumer.pc = "settle"
            /\ consumer'.pc = "select"
            /\ unacked' = Tail(unacked)
            /\ consumer.err => (consumer'.sent = "Nack" /\ queue' = consumer.msg \o queue)
            /\ ~consumer.err => (consumer'.sent = "Ack" /\ queue' = queue)]_vars
    /\ [][consumer'.pc = "handle" /\ consumer.pc # "handle" => consumer.pc = "select"]_vars

\* a message that fails has been nacked and is back in the queue, after
\* another one was acked
C23_Witness ==
    /\ consumer.sent = "Nack"
    /\ unacked = << >>
    /\ Len(queue) = 1
    /\ handleEvent(queue[1])

\* C24: while the consumer keeps running every message is eventually
\* acknowledged and leaves the queue; none is requeued for ever.
C24_EveryMessageLeaves ==
    <>(queue = << >> /\ unacked = << >> /\ consumer.pc = "select")

(***************************************************************************)
(* The profile service: calls of "a" and "b" on the collection "users",    *)
(* racing on the workers (SpecProfile) or one at a time (SpecProfileSeq).  *)
(***************************************************************************)
\* the collection is empty, or holds the profile "b" once got and updated
InitProfile ==
    /\ InitIdle
    /\ relationships = << >>
    /\ users \in { << >>,
                   UidB :> [UserToFirestore(newUser(UidB, 1)) EXCEPT !.bio = "hello"] }
    /\ faults \in BOOLEAN
    /\ InitAux

NextProfile ==
    \E p \in Slots :
        \/ \E uid \in Uids : getProfile_Start(p, uid)
        \/ getProfile_GetUser(p)
        \/ getProfile_Set(p)
        \/ \E uid \in Uids, bodyOk \in BOOLEAN, req \in ProfileRequests :
              updateProfile_Start(p, uid, bodyOk, req)
        \/ updateProfile_Update(p)
        \/ updateProfile_Get(p)

SpecProfile == InitProfile /\ [][NextProfile]_vars

NextProfileSeq ==
    \E p \in {1} :
        \/ \E uid \in Uids : getProfile_Start(p, uid)
        \/ getProfile_GetUser(p)
        \/ getProfile_Set(p)
        \/ \E uid \in Uids, bodyOk \in BOOLEAN, req \in ProfileRequests :
              updateProfile_Start(p, uid, bodyOk, req)
        \/ updateProfile_Update(p)
        \/ updateProfile_Get(p)

SpecProfileSeq == InitProfile /\ [][NextProfileSeq]_vars

\* C29: GET /v1/profile/me, called one call at a time, creates the profile
\* only when none exists: a GET that answers 200 for a stored profile
\* returns it and leaves the store unchanged; one that answers 200 for a
\* missing profile has added exactly the document users/{uid} it returns;
\* a GET that does not answer 200 writes nothing.  After a 200 the profile
\* exists, so a second GET in sequence changes nothing.
C29_GetCreatesOnlyWhenMissing ==
    /\ []((response.call.op = "getProfile" /\ response.resp.status = StatusOK)
            => response.call.uid \in DOMAIN users)
    /\ [][(response'.call.op = "getProfile" /\ response'.resp.status = StatusOK) =>
            LET uid == response'.call.uid
            IN  IF uid \in DOMAIN users
                THEN /\ users' = users
                     /\ response'.resp.body = <<UserDataTo(users, uid)>>
                ELSE /\ DOMAIN users' = DOMAIN users \cup {uid}
                     /\ \A v \in DOMAIN users : users'[v] = users[v]
                     /\ response'.resp.body = <<UserDataTo(users', uid)>>]_vars
    /\ [][(\E p \in Slots : calls[p].op = "getProfile" /\ calls'[p] # calls[p]) =>
            (users' = users \/ response'.resp.status = StatusOK)]_vars

\* a second GET has answered with the profile that an earlier GET created
C29_Witness ==
    /\ response.call.op = "getProfile"
    /\ response.resp.status = StatusOK
    /\ response.call.wrote = "none"
    /\ users[response.call.uid].createdAt > 1

\* C30: a successful PATCH /v1/profile/me is never lost to a GET running
\* at the same time: when the PATCH answers 200 the store holds the values
\* it sent, and afterwards no step of a GET changes displayName or bio of
\* a stored profile.
C30_PatchNotLost ==
    /\ []((response.call.op = "updateProfile" /\ response.resp.status = StatusOK) =>
            LET req == response.call.arg
                doc == users[response.call.uid]
            IN  /\ req.DisplayName # NilString => doc.displayName = req.DisplayName[1]
                /\ req.Bio # NilString => doc.bio = req.Bio[1])
    /\ [][(~faults /\ \E p \in Slots : calls[p].op = "getProfile" /\ calls'[p] # calls[p]) =>
            \A uid \in DOMAIN users :
                /\ users'[uid].displayName = users[uid].displayName
                /\ users'[uid].bio = users[uid].bio]_vars

====
